---- MODULE Spec2Model ----
(***************************************************************************)
(* Model of the RTV echo-cancellation front end.                           *)
(*                                                                         *)
(*   - the engine context: src/src/workers/audio-processor.worker.js       *)
(*     (the message listener, initWasmModule, processAudio);               *)
(*   - the host context: the App component of src/unnamed/part_000         *)
(*     (file selection, settings, the Process button and its progress).    *)
(*                                                                         *)
(* Each JavaScript context is single threaded: the synchronous stretch of  *)
(* a handler between two awaits is one action.  A handler suspended at an  *)
(* await is an entry of `handlers` (worker) or the value of `pc` (App).    *)
(* stepSize is kept in hundredths (0.05 is 5) so that it is an integer.    *)
(***************************************************************************)
EXTENDS Integers, Sequences, FiniteSets, TLC

\* ------------------------------------------------------------------ bounds

\* Number of messages the host posts to the worker.
MaxMessages == 3

\* Number of times the Process button is pressed in the App.
MaxJobs == 2

\* Number of distinct input files (uploads or recordings) the user has.
MaxFiles == 2

\* Number of samples of an input file.
TotalSamples == 4

\* ------------------------------------------------------------ worker state

VARIABLES
    wasmModule,   \* worker.js:7   "null" or "module"
    handlers,     \* one record per listener invocation, in dispatch order
    posted,       \* every message the worker has posted, in order
    postedBy,     \* for posted[i], the listener invocation that posted it (0: start-up)
    engineHolds,  \* output buffers the worker can still read or write
    hostHolds     \* output buffers the host has received

\* --------------------------------------------------------------- App state

VARIABLES
    appWasm,            \* part_000:6    "loading", "null" (load failed) or "module"
    audioFile,          \* part_000:10   0 (null) or the selected file
    isRecording,        \* part_000:11
    stopPending,        \* a MediaRecorder 'stop' event is queued
    isProcessing,       \* part_000:12
    processedAudio,     \* part_000:13   0 (null) or the file the result was made from
    processingProgress, \* part_000:16
    settings,           \* part_000:25
    pc,                 \* where the App's processAudio is suspended
    currentStep,        \* part_000:126
    job,                \* the render the running processAudio closed over
    jobLog,             \* what the current job has reported, in order
    jobs,               \* number of jobs started
    samplesProcessed,   \* samples the engine has processed for the current job
    hostEngineCalls     \* settings the App has passed to wasmModule.processAudio

workerVars == <<wasmModule, handlers, posted, postedBy, engineHolds, hostHolds>>

appVars == <<appWasm, audioFile, isRecording, stopPending, isProcessing,
             processedAudio, processingProgress, settings, pc, currentStep,
             job, jobLog, jobs, samplesProcessed, hostEngineCalls>>

vars == <<wasmModule, handlers, posted, postedBy, engineHolds, hostHolds,
          appWasm, audioFile, isRecording, stopPending, isProcessing,
          processedAudio, processingProgress, settings, pc, currentStep,
          job, jobLog, jobs, samplesProcessed, hostEngineCalls>>

\* Settings a Process request may carry: the App's defaults, a filterLength
\* above its range and a stepSize below its range.
SettingsChoices ==
    { [filterLength |-> 512,  stepSize |-> 5],
      [filterLength |-> 2049, stepSize |-> 5],
      [filterLength |-> 128,  stepSize |-> 0] }

\* event.data of the messages the host may post (worker.js:51).
HostMessages ==
    { [type |-> "init"], [type |-> "cancel"] }
        \cup { [type |-> "process", settings |-> s] : s \in SettingsChoices }

\* The outcomes of the part of processAudio that follows its await.
EngineOutcomes == {"engineThrow", "playbackThrow", "postThrow", "success"}

NoSettings == [filterLength |-> 0, stepSize |-> 0]

\* A listener invocation.  type, pc and settings are the invocation's own; the
\* other fields record what it did and what it found when it was dispatched.
Handler(type, at, sett, path) ==
    [ type        |-> type,
      pc          |-> at,
      settings    |-> sett,
      path        |-> path,
      initOkSeen  |-> \E i \in 1..Len(posted) :
                          posted[i].type = "init" /\ posted[i].success,
      running     |-> { h \in 1..Len(handlers) :
                          handlers[h].type = "process" /\ handlers[h].pc = "awaitEngine" },
      codec       |-> FALSE,
      engine      |-> FALSE,
      cancelled   |-> FALSE ]

\* The output buffer of invocation h (playbackAudio), and a structured clone of it.
OutBuf(h) == [job |-> h, copy |-> FALSE]
CloneOf(b) == [job |-> b.job, copy |-> TRUE]

\* worker.js:23
NotInitializedError == "WASM module not initialized"

\* worker.js:22
NotInitializedNever(wm) == FALSE
NotInitialized(wm) == wm = "null"

\* worker.js:44-46  the catch block of processAudio
OnErrorSwallow(err) == << >>
OnError(err) == << [type |-> "processed", success |-> FALSE, error |-> err] >>

\* worker.js:36-41  the message of the successful path
ProcessedMessage(buf) == [type |-> "processed", success |-> TRUE, data |-> buf]

\* worker.js:42  the transfer list of the successful path
TransferListEmpty(buf) == {}
TransferList(buf) == {buf}

\* postMessage(message, transfer): what the host receives as message.data
Delivered(msg, transfer) ==
    IF msg.data \in transfer THEN msg ELSE [msg EXCEPT !.data = CloneOf(msg.data)]

Post(msgs, h) ==
    /\ posted' = posted \o msgs
    /\ postedBy' = postedBy \o [i \in 1..Len(msgs) |-> h]

WorkerInit ==
    /\ wasmModule = "null"
    /\ handlers = << >>
    /\ posted = << [type |-> "ready"] >>
    /\ postedBy = << 0 >>
    /\ engineHolds = {}
    /\ hostHolds = {}

\* worker.js:10-12  initWasmModule up to its await
InitWasmModuleStart ==
    /\ handlers' = Append(handlers, Handler("init", "awaitLoad", NoSettings, "none"))
    /\ UNCHANGED <<wasmModule, posted, postedBy, engineHolds, hostHolds>>

\* worker.js:12-16  loadWasmModule settles
InitWasmModuleSettle(h, ok) ==
    /\ handlers[h].type = "init"
    /\ handlers[h].pc = "awaitLoad"
    /\ handlers' = [handlers EXCEPT ![h].pc = "done"]
    /\ IF ok
         THEN /\ wasmModule' = "module"
              /\ Post(<< [type |-> "init", success |-> TRUE] >>, h)
         ELSE /\ wasmModule' = wasmModule
              /\ Post(<< [type |-> "init", success |-> FALSE, error |-> "load"] >>, h)
    /\ UNCHANGED <<engineHolds, hostHolds>>

\* worker.js:20-30  processAudio up to its await
ProcessAudioStart(sett, prepOk) ==
    LET h == Len(handlers) + 1
        new == Handler("process", "done", sett, "none")
    IN  /\ IF NotInitialized(wasmModule)
             THEN /\ handlers' = Append(handlers, [new EXCEPT !.path = "notInitialized"])
                  /\ Post(OnError(NotInitializedError), h)
             ELSE IF ~prepOk
             THEN /\ handlers' = Append(handlers,
                                    [new EXCEPT !.path = "codecThrow", !.codec = TRUE])
                  /\ Post(OnError("prepareAudioForProcessing"), h)
             ELSE /\ handlers' = Append(handlers,
                                    [new EXCEPT !.pc = "awaitEngine",
                                                !.codec = TRUE, !.engine = TRUE])
                  /\ UNCHANGED <<posted, postedBy>>
        /\ UNCHANGED <<wasmModule, engineHolds, hostHolds>>

\* worker.js:30-46  wasmModule.processAudio settles
ProcessAudioSettle(h, outcome) ==
    /\ handlers[h].type = "process"
    /\ handlers[h].pc = "awaitEngine"
    /\ handlers' = [handlers EXCEPT ![h].pc = "done", ![h].path = outcome]
    /\ CASE outcome = "engineThrow" ->
              /\ Post(OnError("processAudio"), h)
              /\ UNCHANGED <<engineHolds, hostHolds>>
         [] outcome = "playbackThrow" ->
              /\ Post(OnError("prepareAudioForPlayback"), h)
              /\ UNCHANGED <<engineHolds, hostHolds>>
         [] outcome = "postThrow" ->
              \* playbackAudio is not transferable: postMessage throws, nothing is sent
              /\ Post(OnError("DataCloneError"), h)
              /\ engineHolds' = engineHolds \cup {OutBuf(h)}
              /\ UNCHANGED hostHolds
         [] outcome = "success" ->
              LET msg == Delivered(ProcessedMessage(OutBuf(h)), TransferList(OutBuf(h)))
              IN  /\ Post(<< msg >>, h)
                  /\ engineHolds' = (engineHolds \cup {OutBuf(h)}) \ TransferList(OutBuf(h))
                  /\ hostHolds' = hostHolds \cup {msg.data}
    /\ UNCHANGED wasmModule

\* worker.js:60-61  the default branch; a Cancel message ends here
UnknownMessage(type) ==
    /\ handlers' =
          Append([h \in 1..Len(handlers) |->
                    IF type = "cancel" /\ handlers[h].type = "process"
                                       /\ handlers[h].pc = "awaitEngine"
                      THEN [handlers[h] EXCEPT !.cancelled = TRUE]
                      ELSE handlers[h]],
                 Handler(type, "done", NoSettings, "none"))
    /\ Post(<< [type |-> "error", message |-> "Unknown message type"] >>,
            Len(handlers) + 1)
    /\ UNCHANGED <<wasmModule, engineHolds, hostHolds>>

\* worker.js:50-63  the message listener
OnMessage(msg, prepOk) ==
    /\ Len(handlers) < MaxMessages
    /\ CASE msg.type = "init" -> InitWasmModuleStart
         [] msg.type = "process" -> ProcessAudioStart(msg.settings, prepOk)
         [] OTHER -> UnknownMessage(msg.type)

\* --------------------------------------------------------------------- App

\* part_000:125
totalSteps == 20

\* The positions of the two range inputs the model uses (part_000:342-371);
\* stepSize in hundredths.
SliderValues ==
    [filterLength |-> {512, 2048}, stepSize |-> {5, 20}]

Min(a, b) == IF a < b THEN a ELSE b

\* part_000:129  currentStep++
NextStepStuck(step) == step
NextStep(step) == step + 1

\* part_000:130  Math.min(Math.floor((currentStep / totalSteps) * 100), 99).
\* For every step of 0..20 the floating-point quotient floors to the integer
\* quotient.
ProgressUncapped(step) == (step * 100) \div totalSteps
Progress(step) == Min((step * 100) \div totalSteps, 99)

ProgressEvent(p) == [kind |-> "progress", value |-> p]
Outcome(k) == [kind |-> k, value |-> 0]

AppInit ==
    /\ appWasm = "loading"
    /\ audioFile = 0
    /\ isRecording = FALSE
    /\ stopPending = FALSE
    /\ isProcessing = FALSE
    /\ processedAudio = 0
    /\ processingProgress = 0
    /\ settings = [filterLength |-> 512, stepSize |-> 5]
    /\ pc = "idle"
    /\ currentStep = 0
    /\ job = [input |-> 0, settings |-> [filterLength |-> 512, stepSize |-> 5]]
    /\ jobLog = << >>
    /\ jobs = 0
    /\ samplesProcessed = 0
    /\ hostEngineCalls = {}

\* part_000:32-44  the effect's initWasmModule: loadWasmModule settles
AppInitWasmModule(ok) ==
    /\ appWasm = "loading"
    /\ appWasm' = IF ok THEN "module" ELSE "null"
    /\ UNCHANGED <<audioFile, isRecording, stopPending, isProcessing, processedAudio,
                   processingProgress, settings, pc, currentStep, job, jobLog, jobs,
                   samplesProcessed, hostEngineCalls>>

\* part_000:47-62
handleFileUpload(file) ==
    /\ audioFile' = file
    /\ processedAudio' = 0
    /\ UNCHANGED <<appWasm, isRecording, stopPending, isProcessing,
                   processingProgress, settings, pc, currentStep, job, jobLog, jobs,
                   samplesProcessed, hostEngineCalls>>

\* part_000:65-100  getUserMedia resolved and the recorder started
startRecording ==
    /\ ~isRecording
    /\ ~stopPending
    /\ isRecording' = TRUE
    /\ UNCHANGED <<appWasm, audioFile, stopPending, isProcessing, processedAudio,
                   processingProgress, settings, pc, currentStep, job, jobLog, jobs,
                   samplesProcessed, hostEngineCalls>>

\* part_000:103-111
stopRecording ==
    /\ isRecording
    /\ isRecording' = FALSE
    /\ stopPending' = TRUE
    /\ UNCHANGED <<appWasm, audioFile, isProcessing, processedAudio,
                   processingProgress, settings, pc, currentStep, job, jobLog, jobs,
                   samplesProcessed, hostEngineCalls>>

\* part_000:85-93  mediaRecorder.onstop
onstop(file) ==
    /\ stopPending
    /\ stopPending' = FALSE
    /\ audioFile' = file
    /\ processedAudio' = 0
    /\ UNCHANGED <<appWasm, isRecording, isProcessing,
                   processingProgress, settings, pc, currentStep, job, jobLog, jobs,
                   samplesProcessed, hostEngineCalls>>

\* part_000:191-197
handleSettingChange(name, value) ==
    /\ settings' = [settings EXCEPT ![name] = value]
    /\ settings' # settings
    /\ UNCHANGED <<appWasm, audioFile, isRecording, stopPending, isProcessing,
                   processedAudio, processingProgress, pc, currentStep, job, jobLog,
                   jobs, samplesProcessed, hostEngineCalls>>

\* part_000:128-133  updateProgress up to the timer it returns
updateProgress ==
    /\ currentStep' = NextStep(currentStep)
    /\ processingProgress' = Progress(NextStep(currentStep))
    /\ jobLog' = Append(jobLog, ProgressEvent(Progress(NextStep(currentStep))))

\* part_000:161-163  finally: setIsProcessing(false)
FinallySkipped(flag) == flag
Finally(flag) == FALSE

\* part_000:159-163  catch and finally
Failed ==
    /\ isProcessing' = Finally(isProcessing)
    /\ jobLog' = Append(jobLog, Outcome("failure"))
    /\ pc' = "idle"
    /\ UNCHANGED <<processedAudio, processingProgress, currentStep>>

\* part_000:114-122 and the button's guard, part_000:384
ProcessButton ==
    /\ audioFile # 0 /\ ~isProcessing
    /\ appWasm = "module"
    /\ jobs < MaxJobs
    /\ jobs' = jobs + 1
    /\ isProcessing' = TRUE
    /\ processingProgress' = 0
    /\ job' = [input |-> audioFile, settings |-> settings]
    /\ jobLog' = << ProgressEvent(0) >>
    /\ currentStep' = 0
    /\ samplesProcessed' = 0
    /\ pc' = "arrayBuffer"
    /\ UNCHANGED <<appWasm, audioFile, isRecording, stopPending, processedAudio,
                   settings, hostEngineCalls>>

\* part_000:122-136  audioFile.arrayBuffer() settles
ArrayBufferSettle(ok) ==
    /\ pc = "arrayBuffer"
    /\ IF ok
         THEN /\ updateProgress
              /\ pc' = "initialDelay"
              /\ UNCHANGED <<isProcessing, processedAudio>>
         ELSE Failed
    /\ UNCHANGED <<appWasm, audioFile, isRecording, stopPending, settings, job, jobs,
                   samplesProcessed, hostEngineCalls>>

\* part_000:136-142  the first timer fires and the engine is called
InitialDelayElapsed ==
    /\ pc = "initialDelay"
    /\ pc' = "engine"
    /\ hostEngineCalls' = hostEngineCalls \cup {job.settings}
    /\ UNCHANGED <<appWasm, audioFile, isRecording, stopPending, isProcessing,
                   processedAudio, processingProgress, settings, currentStep, job,
                   jobLog, jobs, samplesProcessed>>

\* part_000:139-146  wasmModule.processAudio settles
AppEngineSettle(ok) ==
    /\ pc = "engine"
    /\ IF ok
         THEN /\ samplesProcessed' = TotalSamples
              /\ updateProgress
              /\ pc' = "stepDelay"
              /\ UNCHANGED <<isProcessing, processedAudio>>
         ELSE /\ Failed
              /\ UNCHANGED samplesProcessed
    /\ UNCHANGED <<appWasm, audioFile, isRecording, stopPending, settings, job, jobs,
                   hostEngineCalls>>

\* part_000:145-163  a timer of the loop fires: the next step, or the end
StepDelayElapsed(blobOk) ==
    /\ pc = "stepDelay"
    /\ IF currentStep < totalSteps
         THEN /\ updateProgress
              /\ UNCHANGED <<pc, isProcessing, processedAudio>>
         ELSE IF blobOk
         THEN /\ processedAudio' = job.input
              /\ processingProgress' = 100
              /\ isProcessing' = Finally(isProcessing)
              /\ jobLog' = jobLog \o << ProgressEvent(100), Outcome("success") >>
              /\ pc' = "idle"
              /\ UNCHANGED currentStep
         ELSE Failed
    /\ UNCHANGED <<appWasm, audioFile, isRecording, stopPending, settings, job, jobs,
                   samplesProcessed, hostEngineCalls>>

Init == WorkerInit /\ AppInit

\* The worker: the host posts a message, or a promise the worker awaits settles.
Next ==
    \/ \E msg \in HostMessages, prepOk \in BOOLEAN :
           OnMessage(msg, prepOk) /\ UNCHANGED appVars
    \/ \E h \in 1..Len(handlers), ok \in BOOLEAN :
           InitWasmModuleSettle(h, ok) /\ UNCHANGED appVars
    \/ \E h \in 1..Len(handlers), o \in EngineOutcomes :
           ProcessAudioSettle(h, o) /\ UNCHANGED appVars

\* The App: a user event, or a promise or timer the App awaits settles.
AppNext ==
    \/ \E ok \in BOOLEAN : AppInitWasmModule(ok) /\ UNCHANGED workerVars
    \/ \E f \in 1..MaxFiles : handleFileUpload(f) /\ UNCHANGED workerVars
    \/ startRecording /\ UNCHANGED workerVars
    \/ stopRecording /\ UNCHANGED workerVars
    \/ \E f \in 1..MaxFiles : onstop(f) /\ UNCHANGED workerVars
    \/ \E n \in DOMAIN SliderValues : \E v \in SliderValues[n] :
           handleSettingChange(n, v) /\ UNCHANGED workerVars
    \/ ProcessButton /\ UNCHANGED workerVars
    \/ \E ok \in BOOLEAN : ArrayBufferSettle(ok) /\ UNCHANGED workerVars
    \/ InitialDelayElapsed /\ UNCHANGED workerVars
    \/ \E ok \in BOOLEAN : AppEngineSettle(ok) /\ UNCHANGED workerVars
    \/ \E ok \in BOOLEAN : StepDelayElapsed(ok) /\ UNCHANGED workerVars

\* The worker and the messages of its host.
Spec == Init /\ [][Next]_vars

\* The App component.
AppSpec == Init /\ [][AppNext]_vars

\* A step of the running job: the promise or timer it awaits settles.
JobStep ==
    \/ \E ok \in BOOLEAN : ArrayBufferSettle(ok) /\ UNCHANGED workerVars
    \/ InitialDelayElapsed /\ UNCHANGED workerVars
    \/ \E ok \in BOOLEAN : AppEngineSettle(ok) /\ UNCHANGED workerVars
    \/ \E ok \in BOOLEAN : StepDelayElapsed(ok) /\ UNCHANGED workerVars

\* The App component, where the file read and the engine call settle and the
\* 100 ms timers fire.
AppFairSpec == AppSpec /\ WF_vars(JobStep)

\* ------------------------------------------------- worker: claims C1-C3, C7-C10

ProcessHandlers == { h \in 1..Len(handlers) : handlers[h].type = "process" }

\* The ProcessResult messages invocation h has posted.
ProcessedBy(h) ==
    { i \in 1..Len(posted) : postedBy[i] = h /\ posted[i].type = "processed" }

Running == { h \in ProcessHandlers : handlers[h].pc = "awaitEngine" }

\* C1: every Process request whose handling has finished has produced exactly
\* one 'processed' message (a success on the successful path, a failure with
\* an error on every other path), and a request still suspended at its await
\* has produced none: never zero at the end, never two.
C1_ExactlyOneProcessed ==
    \A h \in ProcessHandlers :
        IF handlers[h].pc = "done"
          THEN /\ Cardinality(ProcessedBy(h)) = 1
               /\ \A i \in ProcessedBy(h) :
                      /\ posted[i].success <=> handlers[h].path = "success"
                      /\ ~posted[i].success => "error" \in DOMAIN posted[i]
          ELSE ProcessedBy(h) = {}

\* C1 witness: one request was rejected with the module not loaded and another
\* failed because posting its result threw; each has its one message.
C1_Witness ==
    \E h1, h2 \in ProcessHandlers :
        /\ handlers[h1].path = "notInitialized"
        /\ handlers[h2].path = "postThrow"
        /\ Cardinality(ProcessedBy(h1)) = 1
        /\ Cardinality(ProcessedBy(h2)) = 1

\* C2 (as claimed): at most one job is running in the engine, and a Process
\* request dispatched while another is suspended at its await is rejected
\* with Busy and never started.
C2_SingleSlot ==
    /\ Cardinality(Running) <= 1
    /\ \A h \in ProcessHandlers :
           handlers[h].running # {} =>
               /\ ~handlers[h].engine
               /\ handlers[h].pc = "done"
               /\ \A i \in ProcessedBy(h) : ~posted[i].success /\ posted[i].error = "Busy"

\* C3: a Process request dispatched before any successful InitResult was
\* posted is finished at once with one failed ProcessResult carrying the
\* not-initialized error, without the codec helpers or the engine being
\* called; a request dispatched after a successful InitResult is never
\* rejected as not initialized.
C3_NotInitializedRejected ==
    \A h \in ProcessHandlers :
        IF handlers[h].initOkSeen
          THEN /\ handlers[h].path # "notInitialized"
               /\ \A i \in ProcessedBy(h) :
                      posted[i].success \/ posted[i].error # NotInitializedError
          ELSE /\ handlers[h].pc = "done"
               /\ ~handlers[h].codec
               /\ ~handlers[h].engine
               /\ Cardinality(ProcessedBy(h)) = 1
               /\ \A i \in ProcessedBy(h) :
                      ~posted[i].success /\ posted[i].error = NotInitializedError

\* C3 witness: a request was rejected while an Init was still in flight, and a
\* later request, dispatched after the successful InitResult, succeeded.
C3_Witness ==
    \E h0, h1, h2 \in 1..Len(handlers) :
        /\ h0 < h1 /\ h1 < h2
        /\ handlers[h0].type = "init"
        /\ handlers[h1].type = "process" /\ ~handlers[h1].initOkSeen
        /\ handlers[h1].path = "notInitialized"
        /\ handlers[h2].type = "process" /\ handlers[h2].initOkSeen
        /\ handlers[h2].path = "success"

\* C7 (as claimed): a job for which Cancel arrived while it was running ends
\* Cancelled, and no successful ProcessResult is posted for it.
C7_CancelStopsJob ==
    \A h \in ProcessHandlers :
        handlers[h].cancelled =>
            /\ handlers[h].pc = "done" => handlers[h].path = "cancelled"
            /\ \A i \in ProcessedBy(h) : ~posted[i].success

\* The ranges of ProcessingSettings (stepSize in hundredths: (0, 0.2]).
InRange(s) ==
    /\ s.filterLength >= 128 /\ s.filterLength <= 2048
    /\ s.stepSize > 0 /\ s.stepSize <= 20

\* C8 (as claimed): a Process request with settings out of range never reaches
\* the filter engine and is answered with a ValidationError.
C8_SettingsValidated ==
    \A h \in ProcessHandlers :
        ~InRange(handlers[h].settings) =>
            /\ ~handlers[h].codec
            /\ ~handlers[h].engine
            /\ handlers[h].initOkSeen =>
                   \A i \in ProcessedBy(h) :
                       ~posted[i].success /\ posted[i].error = "ValidationError"

\* C9 (as claimed): every ProcessResult carries the jobId of the request it
\* answers.
C9_ResultsCarryJobId ==
    \A i \in 1..Len(posted) :
        posted[i].type = "processed" =>
            /\ "jobId" \in DOMAIN posted[i]
            /\ posted[i].jobId = postedBy[i]

\* C10: the output buffer of a successful ProcessResult has been moved to the
\* host: the message carries the buffer itself, the worker no longer holds
\* it and the posting invocation has finished; a failed ProcessResult carries
\* no buffer; no buffer is held on both sides.
C10_OutputMoved ==
    /\ engineHolds \cap hostHolds = {}
    /\ \A i \in 1..Len(posted) :
           posted[i].type = "processed" =>
               IF posted[i].success
                 THEN /\ posted[i].data = OutBuf(postedBy[i])
                      /\ posted[i].data \in hostHolds
                      /\ posted[i].data \notin engineHolds
                      /\ handlers[postedBy[i]].pc = "done"
                 ELSE "data" \notin DOMAIN posted[i]

\* C10 witness: one request has succeeded and its buffer is with the host,
\* another has failed after the engine ran.
C10_Witness ==
    \E i, j \in 1..Len(posted) :
        /\ posted[i].type = "processed" /\ posted[i].success
        /\ posted[i].data \in hostHolds
        /\ posted[j].type = "processed" /\ ~posted[j].success
        /\ handlers[postedBy[j]].engine

\* ------------------------------------------------------- App: claims C4-C6

ProgressAt == { i \in 1..Len(jobLog) : jobLog[i].kind = "progress" }
OutcomeAt == { i \in 1..Len(jobLog) : jobLog[i].kind # "progress" }

\* C4: the progress values a job reports start at 0 and are strictly
\* increasing; while the job runs it has no outcome, and once it has ended it
\* has exactly one outcome (success or failure), which is the last thing it
\* reports.
C4_ProgressStrictlyIncreasing ==
    /\ jobLog # << >> => jobLog[1] = ProgressEvent(0)
    /\ \A i, j \in ProgressAt : i < j => jobLog[i].value < jobLog[j].value
    /\ IF pc = "idle" /\ jobs > 0
         THEN OutcomeAt = {Len(jobLog)}
         ELSE OutcomeAt = {}

\* C4 witness: a job has run through every step and ended in success.
C4_Witness ==
    /\ pc = "idle"
    /\ Len(jobLog) = totalSteps + 3
    /\ jobLog[Len(jobLog)].kind = "success"
    /\ jobLog[Len(jobLog) - 2] = ProgressEvent(99)

\* C5: progress is an integer of 0..100, below 100 while a job is running;
\* a job reports 100 only as its last value, together with its success, and
\* a job that failed has not reported 100.
C5_HundredOnlyOnSuccess ==
    /\ processingProgress \in 0..100
    /\ pc # "idle" => processingProgress < 100
    /\ processingProgress = 100 =>
           /\ jobLog[Len(jobLog)].kind = "success"
           /\ ~isProcessing
    /\ \A i \in ProgressAt :
           jobLog[i].value = 100 =>
               /\ i = Len(jobLog) - 1
               /\ jobLog[Len(jobLog)].kind = "success"

\* C5 witness: a job has succeeded, its result is available and progress is 100.
C5_Witness ==
    /\ processingProgress = 100
    /\ processedAudio # 0
    /\ jobLog[Len(jobLog)].kind = "success"

\* C6 (as claimed): the progress shown for a running job is
\* floor(100 * samplesProcessed / totalSamples), capped below 100, for the
\* samples the engine has processed so far, and 100 after its success.
C6_ProgressFromSamples ==
    jobs > 0 =>
        IF pc # "idle" \/ jobLog[Len(jobLog)].kind = "failure"
          THEN processingProgress = Min((100 * samplesProcessed) \div TotalSamples, 99)
          ELSE processingProgress = 100

\* ------------------------------------------------------ App: claims C11-C13

\* C11 (as claimed): the host context never calls the filter engine itself;
\* the engine's processAudio runs only inside the worker.
C11_HostNeverCallsEngine ==
    /\ hostEngineCalls = {}
    /\ pc # "engine"

\* C12: a job of the host is processing exactly while isProcessing is true;
\* it has no outcome while it runs and exactly one, its last report, once it
\* has ended; no job is started while isProcessing is true; and, the awaited
\* promises and timers settling, isProcessing always becomes false again.
C12_JobEndsAndFreesSlot ==
    /\ []( /\ isProcessing <=> pc # "idle"
           /\ IF isProcessing \/ jobs = 0
                THEN OutcomeAt = {}
                ELSE OutcomeAt = {Len(jobLog)} )
    /\ [][isProcessing => jobs' = jobs]_vars
    /\ (isProcessing ~> ~isProcessing)

\* C12 witness: one job has failed, and a second job, started after it,
\* has ended in success; the slot is free again.
C12_Witness ==
    /\ jobs = 2
    /\ ~isProcessing
    /\ pc = "idle"
    /\ jobLog[Len(jobLog)].kind = "success"
    /\ processingProgress = 100

\* C13 (as claimed): a processed result the host holds was made from the
\* input that is selected now.
C13_ResultOfSelectedInput ==
    processedAudio # 0 => processedAudio = audioFile

====
